---- MODULE Spec2Model ----
(***************************************************************************)
(* Model of the wardensync planner: SyncPlanner (src/src/vault_sync.py)    *)
(* over two BitwardenClient stores (src/src/bw_client.py).                 *)
(*                                                                         *)
(* Encoding of the JSON records the clients return:                        *)
(*   - a dict is a TLA+ function from key strings to values; a key the     *)
(*     dict lacks is outside its DOMAIN;                                   *)
(*   - a list is a sequence;                                               *)
(*   - every scalar is a string; JSON null in a scalar position is None;   *)
(*   - JSON null where a dict or a list is expected is NoneDict/NoneList;  *)
(*   - an object reference is the index of the object in the list that     *)
(*     list_items returned (src_items, dst_items).                         *)
(***************************************************************************)
EXTENDS Integers, Sequences, FiniteSets, TLC

VARIABLES
    srcStore,       \* content of the source vault
    dstStore,       \* content of the destination vault
    calls,          \* client operations invoked so far: <<side, operation, result,
                    \* exit status of the CLI process>>
    pc,             \* position of the running call
    outcome,        \* "running", "returned", or the name of the exception raised
    src_items,      \* plan(): list fetched from the source (records mutated in place)
    dst_items,      \* plan(): list fetched from the destination
    src_map,        \* plan(): dict sync_id -> source record, in insertion order
    dst_map,        \* plan(): dict sync_id -> destination record
    src_unmatched,  \* list of source records without sync_id
    dst_unmatched,  \* list of destination records without sync_id
    matched_pairs,  \* plan(): pairs matched by sync_id
    futures,        \* tasks of the running pool: state and result of each
    results,        \* results in the order the tasks completed
    consumed,       \* how many completed futures the caller has taken
    fuzzy_updates,  \* update_pairs returned by _match_unmatched
    fuzzy_creates,  \* create_list returned by _match_unmatched
    to_create,
    to_update,
    to_delete,
    arg,            \* a function called on its own: the record passed to it
    ret,            \* a function called on its own: what it has returned so far
    session,        \* a client used on its own: self.session, None or a token
    use_api_key     \* a client used on its own: self.use_api_key

vars == <<srcStore, dstStore, calls, pc, outcome, src_items, dst_items,
          src_map, dst_map, src_unmatched, dst_unmatched, matched_pairs,
          futures, results, consumed, fuzzy_updates, fuzzy_creates,
          to_create, to_update, to_delete, arg, ret, session, use_api_key>>

(***************************************************************************)
(* Bounds                                                                  *)
(***************************************************************************)
MaxSrc == 2
MaxDst == 2

(***************************************************************************)
(* JSON values                                                             *)
(***************************************************************************)
None == "<None>"
NoneDict == [null |-> "dict"]
NoneList == <<NoneDict>>
\* the string a null container is coerced to, kept apart from the dicts
EmptyStrValue == [null |-> ""]

SYNC_FIELD == "sync_id"
IGNORED_FIELDS == {"id", "revisionDate", "creationDate", "deletedDate", "organizationId", SYNC_FIELD}
VOLATILE_LOGIN_KEYS == {"passwordRevisionDate", "totp"}

\* dict.get(k, default)
Get(d, k, default) == IF k \in DOMAIN d THEN d[k] ELSE default
\* x or "" for a string or None x
OrEmpty(x) == IF x = None THEN "" ELSE x
\* the dict without the keys of a set
DropKeys(d, ks) == [k \in (DOMAIN d) \ ks |-> d[k]]
\* the dict with d[k] = v
Put(d, k, v) == [x \in (DOMAIN d) \cup {k} |-> IF x = k THEN v ELSE d[x]]

\* str.strip().lower() on the strings of the model
StripLower(s) ==
    CASE s \in {"Bank", "bank ", " BANK"} -> "bank"
      [] s \in {"Alice", " alice"} -> "alice"
      [] s \in {"Shop", "shop "} -> "shop"
      [] s \in {"HTTPS://Bank.com", " https://bank.com"} -> "https://bank.com"
      [] OTHER -> s

\* uri.split("//")[-1].split("/")[0] on the (lowercased) uris of the model
DomainOf(uri) ==
    CASE uri \in {"https://bank.com", "https://bank.com/login", "bank.com"} -> "bank.com"
      [] uri \in {"https://shop.org", "shop.org/cart"} -> "shop.org"
      [] OTHER -> uri

\* the strings that are sort keys, in Python's (code point) order
StrOrder == <<"", "bank.com", "env", "https://bank.com", "https://bank.com/login",
              "https://shop.org", "region", "shop.org/cart", "sync_id">>
StrRank(s) == CHOOSE i \in 1..Len(StrOrder) : StrOrder[i] = s
\* the integers a uri's match holds, as scalars; None and the "" it is coerced
\* to are ordered with nothing but themselves
MatchRank(m) == CASE m \in {None, ""} -> 0 [] m = "0" -> 1 [] m = "1" -> 2 [] OTHER -> 3
\* the Python type of a uri's match
MatchType(m) == CASE m = None -> "NoneType" [] m = "" -> "str" [] OTHER -> "int"

(***************************************************************************)
(* Sync ID helpers                                                         *)
(***************************************************************************)
\* item.get("login", {}) is None, or the first uri entry holds uri: null
compute_sync_id_raises(item) ==
    LET login == Get(item, "login", <<>>)
        uris  == IF login = NoneDict THEN <<>> ELSE Get(login, "uris", NoneList)
    IN  \/ login = NoneDict
        \/ /\ uris # NoneList
           /\ uris # <<>>
           /\ Get(uris[1], "uri", "") = None

compute_sync_id(item) ==
    LET name     == StripLower(OrEmpty(Get(item, "name", None)))
        login    == Get(item, "login", <<>>)
        username == StripLower(OrEmpty(Get(login, "username", None)))
        got      == Get(login, "uris", NoneList)
        uris     == IF got = NoneList THEN <<>> ELSE got
        domain   == IF uris # <<>>
                    THEN DomainOf(StripLower(Get(uris[1], "uri", "")))
                    ELSE ""
    IN  "sha256(" \o name \o "|" \o username \o "|" \o domain \o ")"

build_key(item) ==
    LET name  == StripLower(OrEmpty(Get(item, "name", None)))
        login == Get(item, "login", <<>>)
        got   == Get(login, "uris", NoneList)
        uris  == IF got = NoneList THEN <<>> ELSE got
        uri   == IF uris # <<>> THEN StripLower(Get(uris[1], "uri", "")) ELSE ""
    IN  name \o "|" \o uri

\* item.get("fields") or []
FieldsOrEmpty(item) ==
    LET got == Get(item, "fields", NoneList)
    IN  IF got = NoneList THEN <<>> ELSE got

\* index of the first field entry with that name, 0 when there is none
FieldIndex(fields, field_name) ==
    IF \E i \in 1..Len(fields) : Get(fields[i], "name", None) = field_name
    THEN CHOOSE i \in 1..Len(fields) :
            /\ Get(fields[i], "name", None) = field_name
            /\ \A j \in 1..(i - 1) : Get(fields[j], "name", None) # field_name
    ELSE 0

get_custom_field(item, field_name) ==
    LET fields == FieldsOrEmpty(item)
        i      == FieldIndex(fields, field_name)
    IN  IF i = 0 THEN "" ELSE OrEmpty(Get(fields[i], "value", None))

\* set_custom_field without the search for an entry of that name
set_custom_field_append(item, field_name, value) ==
    Put(item, "fields",
        Append(FieldsOrEmpty(item), [name |-> field_name, value |-> value, type |-> "0"]))

set_custom_field(item, field_name, value) ==
    LET fields == FieldsOrEmpty(item)
        i      == FieldIndex(fields, field_name)
    IN  IF i # 0
        THEN Put(item, "fields", [fields EXCEPT ![i] = Put(fields[i], "value", value)])
        ELSE Put(item, "fields",
                 Append(fields, [name |-> field_name, value |-> value, type |-> "0"]))

get_sync_id(item) == get_custom_field(item, SYNC_FIELD)
set_sync_id(item, sync_id) == set_custom_field(item, SYNC_FIELD, sync_id)

(***************************************************************************)
(* Comparison logic                                                        *)
(***************************************************************************)
\* stable insertion of a <<rank, element>> pair into a list sorted by rank
RECURSIVE InsertByRank(_, _)
InsertByRank(sorted, p) ==
    IF sorted = <<>> THEN <<p>>
    ELSE IF p[1] < Head(sorted)[1] THEN <<p>> \o sorted
    ELSE <<Head(sorted)>> \o InsertByRank(Tail(sorted), p)

\* sorted(): the <<rank, element>> pairs in ascending rank, equal ranks in list order
RECURSIVE SortPairs(_)
SortPairs(ps) ==
    IF ps = <<>> THEN <<>>
    ELSE InsertByRank(SortPairs(SubSeq(ps, 1, Len(ps) - 1)), ps[Len(ps)])

Elements(ps) == [i \in 1..Len(ps) |-> ps[i][2]]

\* one entry of norm_uris
NormUri(u) ==
    [uri   |-> StripLower(OrEmpty(Get(u, "uri", None))),
     match |-> Get(u, "match", "0"),
     port  |-> Get(u, "port", None)]

\* sorted(norm_uris, key=(uri, match))
SortUris(norm_uris) ==
    Elements(SortPairs([i \in 1..Len(norm_uris) |->
        <<StrRank(norm_uris[i].uri) * 4 + MatchRank(norm_uris[i].match), norm_uris[i]>>]))

\* the key comparison of two uri entries raises TypeError: same uri, and the
\* matches are of two types, None and an integer or (in a record normalized
\* before) "" and an integer (lists of up to three entries compare every such
\* pair)
SortUrisRaises(norm_uris) ==
    \E i, j \in 1..Len(norm_uris) :
        /\ i # j
        /\ norm_uris[i].uri = norm_uris[j].uri
        /\ MatchType(norm_uris[i].match) # MatchType(norm_uris[j].match)

\* FilterFields that takes the sync_id entry to be the last one, where
\* set_custom_field appends it, and drops the last entry
FilterFieldsDropLast(fields) ==
    LET filtered == SubSeq(fields, 1, Len(fields) - 1)
    IN  [i \in 1..Len(filtered) |->
            IF "value" \in DOMAIN filtered[i] /\ filtered[i]["value"] = None
            THEN Put(filtered[i], "value", "")
            ELSE filtered[i]]

\* fields without the sync_id entry, value None coerced to ""
FilterFields(fields) ==
    LET filtered == SelectSeq(fields, LAMBDA f : Get(f, "name", None) # SYNC_FIELD)
    IN  [i \in 1..Len(filtered) |->
            IF "value" \in DOMAIN filtered[i] /\ filtered[i]["value"] = None
            THEN Put(filtered[i], "value", "")
            ELSE filtered[i]]

\* sorted(filtered, key=name)
SortFields(filtered) ==
    Elements(SortPairs([i \in 1..Len(filtered) |->
        <<StrRank(Get(filtered[i], "name", "")), filtered[i]>>]))

\* a key that is None is compared with another key: TypeError
SortFieldsRaises(filtered) ==
    /\ Len(filtered) >= 2
    /\ \E i \in 1..Len(filtered) : Get(filtered[i], "name", "") = None

\* isinstance(d.get(k), dict) and isinstance(d.get(k), list): neither None nor
\* the string a None was coerced to
IsDictAt(d, k) == k \in DOMAIN d /\ d[k] \notin {NoneDict, EmptyStrValue}
IsListAt(d, k) == k \in DOMAIN d /\ d[k] \notin {NoneList, <<EmptyStrValue>>}

NormalizeLogin(login) ==
    LET kept == DropKeys(login, VOLATILE_LOGIN_KEYS)
    IN  IF IsListAt(kept, "uris")
        THEN Put(kept, "uris",
                 SortUris([i \in 1..Len(kept.uris) |-> NormUri(kept.uris[i])]))
        ELSE kept

\* the kind of value a key holds
KindOf(k) ==
    CASE k = "login" -> "dict"
      [] k \in {"fields", "uris"} -> "list"
      [] OTHER -> "scalar"

\* normalize_values: every None becomes ""
RECURSIVE normalize_values(_, _)
normalize_values(obj, kind) ==
    CASE kind = "dict" ->
            IF obj \in {NoneDict, EmptyStrValue} THEN EmptyStrValue
            ELSE [k \in DOMAIN obj |-> normalize_values(obj[k], KindOf(k))]
      [] kind = "list" ->
            IF obj \in {NoneList, <<EmptyStrValue>>} THEN <<EmptyStrValue>>
            ELSE [i \in 1..Len(obj) |-> normalize_values(obj[i], "dict")]
      [] OTHER ->
            IF obj = None THEN "" ELSE obj

normalize_item_raises(item) ==
    LET clean == DropKeys(item, IGNORED_FIELDS)
    IN  \/ /\ IsDictAt(clean, "login")
           /\ IsListAt(clean.login, "uris")
           /\ SortUrisRaises([i \in 1..Len(clean.login.uris) |-> NormUri(clean.login.uris[i])])
        \/ /\ IsListAt(clean, "fields")
           /\ SortFieldsRaises(FilterFields(clean.fields))

normalize_item(item) ==
    LET clean  == DropKeys(item, IGNORED_FIELDS)
        clean1 == IF IsDictAt(clean, "login")
                  THEN Put(clean, "login", NormalizeLogin(clean.login))
                  ELSE clean
        clean2 == IF IsListAt(clean1, "fields")
                  THEN Put(clean1, "fields", SortFields(FilterFields(clean1.fields)))
                  ELSE clean1
        clean3 == IF Get(clean2, "notes", None) = None
                  THEN Put(clean2, "notes", "")
                  ELSE clean2
    IN  normalize_values(clean3, "dict")

\* the keys of the records, in the order sort_keys gives them
KeyOrder == <<"fields", "login", "match", "name", "notes", "password", "port",
              "type", "uri", "uris", "username", "value">>

\* json.dumps(obj, sort_keys=True, separators=(",", ":"))
RECURSIVE dumps(_, _)
RECURSIVE DumpMembers(_, _)
RECURSIVE DumpElements(_)
dumps(obj, kind) ==
    CASE kind = "dict" ->
            IF obj = EmptyStrValue THEN "\"\""
            ELSE IF obj = NoneDict THEN "null"
            ELSE "{" \o DumpMembers(obj, SelectSeq(KeyOrder, LAMBDA k : k \in DOMAIN obj)) \o "}"
      [] kind = "list" ->
            IF obj = <<EmptyStrValue>> THEN "\"\""
            ELSE IF obj = NoneList THEN "null"
            ELSE "[" \o DumpElements(obj) \o "]"
      [] OTHER ->
            IF obj = None THEN "null" ELSE "\"" \o obj \o "\""
DumpMembers(obj, keys) ==
    IF keys = <<>> THEN ""
    ELSE "\"" \o Head(keys) \o "\":" \o dumps(obj[Head(keys)], KindOf(Head(keys)))
         \o (IF Len(keys) > 1 THEN "," ELSE "") \o DumpMembers(obj, Tail(keys))
DumpElements(list) ==
    IF list = <<>> THEN ""
    ELSE dumps(Head(list), "dict") \o (IF Len(list) > 1 THEN "," ELSE "")
         \o DumpElements(Tail(list))

items_differ(src, dst) ==
    dumps(normalize_item(src), "dict") # dumps(normalize_item(dst), "dict")

(***************************************************************************)
(* The records list_items can return                                       *)
(***************************************************************************)
BankUri == [uri |-> "https://bank.com", match |-> None]

\* Bank / alice, no custom fields
ItemAlice ==
    [name |-> "Bank", notes |-> None,
     login |-> [username |-> "alice", password |-> "p1", uris |-> <<BankUri>>]]
\* the same name and first uri, another username
ItemBob ==
    [name |-> "bank ", notes |-> "",
     login |-> [username |-> "bob", password |-> "p1", uris |-> <<BankUri>>]]
\* a record that carries a sync_id from an earlier run
ItemSynced ==
    [name |-> "Bank", notes |-> None,
     login |-> [username |-> "alice", password |-> "p1", uris |-> <<BankUri>>],
     fields |-> <<[name |-> "env", value |-> "prod", type |-> "0"],
                  [name |-> SYNC_FIELD, value |-> "sid-1", type |-> "0"]>>]
\* the same sync_id on other content
ItemSynced2 ==
    [name |-> "Bank", notes |-> None,
     login |-> [username |-> "alice", password |-> "p1", uris |-> <<BankUri>>],
     fields |-> <<[name |-> SYNC_FIELD, value |-> "sid-1", type |-> "0"],
                  [name |-> "env", value |-> "staging", type |-> "0"]>>]
\* one uri listed twice, with match null and with match 0
ItemTwoMatch ==
    [name |-> "Shop", notes |-> "n",
     login |-> [username |-> "carol", password |-> "p1",
                uris |-> <<[uri |-> "https://shop.org", match |-> None],
                           [uri |-> "https://shop.org", match |-> "0"]>>]]

\* nothing but empty values: no name, no username, no uris, no sync_id
ItemBlank ==
    [name |-> "", notes |-> None,
     login |-> [username |-> None, password |-> "p1", uris |-> <<>>]]

Items == {ItemAlice, ItemBob, ItemSynced, ItemSynced2, ItemTwoMatch}
\* a vault that holds records without any identifying value
BlankItems == {ItemBlank, ItemAlice, ItemTwoMatch}

\* the store assigns every record its id
StoreListsOf(S, side, max) ==
    UNION {{[i \in 1..n |-> Put(f[i], "id", side \o "-" \o ToString(i))] :
                f \in [1..n -> S]} : n \in 0..max}
StoreLists(side, max) == StoreListsOf(Items, side, max)

(***************************************************************************)
(* Python dicts keyed by sync_id: a list of entries in insertion order     *)
(***************************************************************************)
DictHas(m, key) == \E i \in 1..Len(m) : m[i].key = key
\* m.get(key): the reference stored, 0 for None
DictGet(m, key) ==
    IF DictHas(m, key) THEN m[CHOOSE i \in 1..Len(m) : m[i].key = key].ref ELSE 0
\* m[key] = ref: a key already there keeps its place and takes the new value
DictSet(m, key, ref) ==
    IF DictHas(m, key)
    THEN [i \in 1..Len(m) |-> IF m[i].key = key THEN [key |-> key, ref |-> ref] ELSE m[i]]
    ELSE Append(m, [key |-> key, ref |-> ref])

SeqToSet(q) == {q[i] : i \in 1..Len(q)}
\* the orders in which n tasks can complete
Orders(n) == {p \in [1..n -> 1..n] : \A i, j \in 1..n : p[i] = p[j] => i = j}
\* list.remove(x): without the first occurrence of x
RemoveFirst(q, x) ==
    LET i == CHOOSE k \in 1..Len(q) : q[k] = x /\ \A j \in 1..(k - 1) : q[j] # x
    IN  SubSeq(q, 1, i - 1) \o SubSeq(q, i + 1, Len(q))

(***************************************************************************)
(* Fuzzy matching: _match_unmatched                                        *)
(***************************************************************************)
\* dst_lookup.get(key): of the unmatched destination records with that key the
\* last one, 0 for None
DstLookup(ditems, dstU, key) ==
    LET hits == {j \in 1..Len(dstU) : build_key(ditems[dstU[j]]) = key}
    IN  IF hits = {} THEN 0
        ELSE dstU[CHOOSE j \in hits : \A k \in hits : k <= j]

match_one(sitems, ditems, dstU, src) ==
    LET dst == DstLookup(ditems, dstU, build_key(sitems[src]))
    IN  IF dst # 0
        THEN [action |-> "update", src |-> src, dst |-> dst]
        ELSE [action |-> "create", src |-> src, dst |-> 0]

\* the loop over the results, in the order the tasks completed. The records of
\* one store differ in their id, so "dst in dst_unmatched" and remove(dst), which
\* compare by value, find the object itself.
RECURSIVE CollectResults(_, _)
CollectResults(res, acc) ==
    IF res = <<>> THEN acc
    ELSE LET r == Head(res)
         IN  CollectResults(Tail(res),
                IF r.action = "update" /\ r.dst # 0
                THEN [update_pairs  |-> Append(acc.update_pairs, <<r.src, r.dst>>),
                      create_list   |-> acc.create_list,
                      dst_unmatched |-> IF r.dst \in SeqToSet(acc.dst_unmatched)
                                        THEN RemoveFirst(acc.dst_unmatched, r.dst)
                                        ELSE acc.dst_unmatched]
                ELSE IF r.action = "create"
                THEN [acc EXCEPT !.create_list = Append(@, r.src)]
                ELSE acc)

\* the whole call, the tasks completing in the given order
match_unmatched(sitems, ditems, srcU, dstU, order) ==
    CollectResults([i \in 1..Len(srcU) |-> match_one(sitems, ditems, dstU, srcU[order[i]])],
                   [update_pairs |-> <<>>, create_list |-> <<>>, dst_unmatched |-> dstU])

(***************************************************************************)
(* plan()                                                                  *)
(***************************************************************************)
\* how the bw process of a list_items call can fail: a non-zero exit status, or
\* exit status 0 with an output that is no JSON
CliFailures == {[returncode |-> 1, stdout |-> "error"],
                [returncode |-> 0, stdout |-> "not json"]}

\* _run(cmd, capture_json): "ok" or the exception raised. subprocess.run is
\* called with check=True and raises CalledProcessError itself on a non-zero
\* exit status, so the returncode test after it is never reached with one.
run_result(cli, capture_json) ==
    IF cli.returncode # 0 THEN "CalledProcessError"
    ELSE IF capture_json /\ cli.stdout = "not json" THEN "BitwardenError"
    ELSE "ok"

\* list_items is self._run(["list", "items"])
ListItemsErrors == {run_result(cli, TRUE) : cli \in CliFailures}

\* the locals of a plan() that has just been called
PlanEntry ==
    /\ calls = <<>>
    /\ pc = "fetch_src"
    /\ outcome = "running"
    /\ src_items = <<>>
    /\ dst_items = <<>>
    /\ src_map = <<>>
    /\ dst_map = <<>>
    /\ src_unmatched = <<>>
    /\ dst_unmatched = <<>>
    /\ matched_pairs = <<>>
    /\ futures = <<>>
    /\ results = <<>>
    /\ consumed = 0
    /\ fuzzy_updates = <<>>
    /\ fuzzy_creates = <<>>
    /\ to_create = <<>>
    /\ to_update = <<>>
    /\ to_delete = <<>>
    /\ arg = NoneDict
    /\ ret = [op |-> "none"]
    /\ session = None
    /\ use_api_key = TRUE

Init ==
    /\ srcStore \in StoreLists("src", MaxSrc)
    /\ dstStore \in StoreLists("dst", MaxDst)
    /\ PlanEntry

\* plan() over vaults that hold records without any identifying value
InitBlank ==
    /\ srcStore \in StoreListsOf(BlankItems, "src", MaxSrc)
    /\ dstStore \in StoreListsOf(BlankItems, "dst", MaxDst)
    /\ PlanEntry

\* src_items = self.source.list_items()
FetchSrc ==
    /\ pc = "fetch_src"
    /\ calls' = Append(calls, <<"source", "list_items", "ok", 0>>)
    /\ src_items' = srcStore
    /\ pc' = "fetch_dst"
    /\ UNCHANGED <<session, use_api_key, arg, ret,
                   srcStore, dstStore, outcome, dst_items, src_map, dst_map,
                   src_unmatched, dst_unmatched, matched_pairs, futures, results,
                   consumed, fuzzy_updates, fuzzy_creates, to_create, to_update, to_delete>>

\* the call raises: the exception leaves plan()
FetchSrcFail ==
    /\ pc = "fetch_src"
    /\ \E cli \in CliFailures :
        /\ calls' = Append(calls, <<"source", "list_items", run_result(cli, TRUE),
                                    cli.returncode>>)
        /\ outcome' = run_result(cli, TRUE)
    /\ pc' = "raised"
    /\ UNCHANGED <<session, use_api_key, arg, ret,
                   srcStore, dstStore, src_items, dst_items, src_map, dst_map,
                   src_unmatched, dst_unmatched, matched_pairs, futures, results,
                   consumed, fuzzy_updates, fuzzy_creates, to_create, to_update, to_delete>>

\* FetchDstFail with the failure logged and an empty list used in its place
FetchDstFailSwallowed ==
    /\ pc = "fetch_dst"
    /\ \E cli \in CliFailures :
        calls' = Append(calls, <<"destination", "list_items", run_result(cli, TRUE),
                                 cli.returncode>>)
    /\ dst_items' = <<>>
    /\ pc' = "assign_src"
    /\ UNCHANGED <<session, use_api_key, arg, ret,
                   srcStore, dstStore, outcome, src_items, src_map, dst_map,
                   src_unmatched, dst_unmatched, matched_pairs, futures, results,
                   consumed, fuzzy_updates, fuzzy_creates, to_create, to_update, to_delete>>

\* dst_items = self.dest.list_items()
FetchDst ==
    /\ pc = "fetch_dst"
    /\ calls' = Append(calls, <<"destination", "list_items", "ok", 0>>)
    /\ dst_items' = dstStore
    /\ pc' = "assign_src"
    /\ UNCHANGED <<session, use_api_key, arg, ret,
                   srcStore, dstStore, outcome, src_items, src_map, dst_map,
                   src_unmatched, dst_unmatched, matched_pairs, futures, results,
                   consumed, fuzzy_updates, fuzzy_creates, to_create, to_update, to_delete>>

FetchDstFail ==
    /\ pc = "fetch_dst"
    /\ \E cli \in CliFailures :
        /\ calls' = Append(calls, <<"destination", "list_items", run_result(cli, TRUE),
                                    cli.returncode>>)
        /\ outcome' = run_result(cli, TRUE)
    /\ pc' = "raised"
    /\ UNCHANGED <<session, use_api_key, arg, ret,
                   srcStore, dstStore, src_items, dst_items, src_map, dst_map,
                   src_unmatched, dst_unmatched, matched_pairs, futures, results,
                   consumed, fuzzy_updates, fuzzy_creates, to_create, to_update, to_delete>>

\* EffectiveSyncId that recomputes the fingerprint of every record
EffectiveSyncIdRecompute(item) == compute_sync_id(item)

\* sid = self.get_sync_id(x) or self.compute_sync_id(x)
EffectiveSyncId(item) ==
    IF get_sync_id(item) # "" THEN get_sync_id(item) ELSE compute_sync_id(item)
EffectiveSyncIdRaises(item) ==
    get_sync_id(item) = "" /\ compute_sync_id_raises(item)

\* one iteration of the loop over src_items
SrcIdentityStep(st, i) ==
    LET sid == EffectiveSyncId(st.items[i])
    IN  [items     |-> [st.items EXCEPT ![i] = set_sync_id(st.items[i], sid)],
         map       |-> IF sid # "" THEN DictSet(st.map, sid, i) ELSE st.map,
         unmatched |-> IF sid # "" THEN st.unmatched ELSE Append(st.unmatched, i)]

\* one iteration of the loop over dst_items
DstIdentityStep(st, i) ==
    LET sid == EffectiveSyncId(st.items[i])
    IN  [items     |-> st.items,
         map       |-> IF sid # "" THEN DictSet(st.map, sid, i) ELSE st.map,
         unmatched |-> IF sid # "" THEN st.unmatched ELSE Append(st.unmatched, i)]

RECURSIVE SrcIdentityLoop(_, _)
SrcIdentityLoop(st, i) ==
    IF i > Len(st.items) THEN st ELSE SrcIdentityLoop(SrcIdentityStep(st, i), i + 1)

RECURSIVE DstIdentityLoop(_, _)
DstIdentityLoop(st, i) ==
    IF i > Len(st.items) THEN st ELSE DstIdentityLoop(DstIdentityStep(st, i), i + 1)

\* AssignSource that also saves every record it tagged to the source store
AssignSourceWritesBack ==
    /\ pc = "assign_src"
    /\ LET st == SrcIdentityLoop([items |-> src_items, map |-> <<>>, unmatched |-> <<>>], 1)
       IN  /\ src_items' = st.items
           /\ src_map' = st.map
           /\ src_unmatched' = st.unmatched
           /\ srcStore' = st.items
           /\ calls' = calls \o [i \in 1..Len(src_items) |-> <<"source", "edit_item", "ok", 0>>]
    /\ pc' = "assign_dst"
    /\ UNCHANGED <<session, use_api_key, arg, ret,
                   dstStore, outcome, dst_items, dst_map, dst_unmatched,
                   matched_pairs, futures, results, consumed, fuzzy_updates,
                   fuzzy_creates, to_create, to_update, to_delete>>

\* for s in src_items: ...
AssignSource ==
    /\ pc = "assign_src"
    /\ IF \E i \in 1..Len(src_items) : EffectiveSyncIdRaises(src_items[i])
       THEN /\ pc' = "raised"
            /\ outcome' = "AttributeError"
            /\ UNCHANGED <<src_items, src_map, src_unmatched>>
       ELSE LET st == SrcIdentityLoop([items |-> src_items, map |-> <<>>, unmatched |-> <<>>], 1)
            IN  /\ src_items' = st.items
                /\ src_map' = st.map
                /\ src_unmatched' = st.unmatched
                /\ pc' = "assign_dst"
                /\ UNCHANGED outcome
    /\ UNCHANGED <<session, use_api_key, arg, ret,
                   srcStore, dstStore, calls, dst_items, dst_map, dst_unmatched,
                   matched_pairs, futures, results, consumed, fuzzy_updates,
                   fuzzy_creates, to_create, to_update, to_delete>>

\* for d in dst_items: ...
AssignDest ==
    /\ pc = "assign_dst"
    /\ IF \E i \in 1..Len(dst_items) : EffectiveSyncIdRaises(dst_items[i])
       THEN /\ pc' = "raised"
            /\ outcome' = "AttributeError"
            /\ UNCHANGED <<dst_items, dst_map, dst_unmatched>>
       ELSE LET st == DstIdentityLoop([items |-> dst_items, map |-> <<>>, unmatched |-> <<>>], 1)
            IN  /\ dst_items' = st.items
                /\ dst_map' = st.map
                /\ dst_unmatched' = st.unmatched
                /\ pc' = "match"
                /\ UNCHANGED outcome
    /\ UNCHANGED <<session, use_api_key, arg, ret,
                   srcStore, dstStore, calls, src_items, src_map, src_unmatched,
                   matched_pairs, futures, results, consumed, fuzzy_updates,
                   fuzzy_creates, to_create, to_update, to_delete>>

\* MatchLoop that pairs the entries of the two dicts by position
MatchLoopZip(smap, dmap, acc) ==
    LET n == IF Len(smap) < Len(dmap) THEN Len(smap) ELSE Len(dmap)
    IN  [matched_pairs |-> acc.matched_pairs \o [i \in 1..n |-> <<smap[i].ref, dmap[i].ref>>],
         to_create     |-> acc.to_create \o [i \in 1..(Len(smap) - n) |-> smap[n + i].ref]]

\* 1. Match by sync_id: the loop over src_map.items(). A fetched record carries
\* its id and is never an empty dict, so "if dst" tests that dst is not None.
RECURSIVE MatchLoop(_, _, _)
MatchLoop(smap, dmap, acc) ==
    IF smap = <<>> THEN acc
    ELSE LET dst == DictGet(dmap, Head(smap).key)
         IN  MatchLoop(Tail(smap), dmap,
                IF dst # 0
                THEN [acc EXCEPT !.matched_pairs = Append(@, <<Head(smap).ref, dst>>)]
                ELSE [acc EXCEPT !.to_create = Append(@, Head(smap).ref)])

MatchBySyncId ==
    /\ pc = "match"
    /\ LET r == MatchLoop(src_map, dst_map, [matched_pairs |-> <<>>, to_create |-> to_create])
       IN  /\ matched_pairs' = r.matched_pairs
           /\ to_create' = r.to_create
    /\ pc' = "exact_submit"
    /\ UNCHANGED <<session, use_api_key, arg, ret,
                   srcStore, dstStore, calls, outcome, src_items, dst_items, src_map,
                   dst_map, src_unmatched, dst_unmatched, futures, results, consumed,
                   fuzzy_updates, fuzzy_creates, to_update, to_delete>>

\* compare_pair(pair): what the task's future holds when it is done
compare_pair(sitems, ditems, pair) ==
    IF normalize_item_raises(sitems[pair[1]]) \/ normalize_item_raises(ditems[pair[2]])
    THEN [pair |-> pair, raised |-> TRUE, diff |-> FALSE]
    ELSE [pair |-> pair, raised |-> FALSE,
          diff |-> items_differ(sitems[pair[1]], ditems[pair[2]])]

\* futures = [executor.submit(compare_pair, p) for p in matched_pairs]
SubmitExact ==
    /\ pc = "exact_submit"
    /\ futures' = [i \in 1..Len(matched_pairs) |-> "pending"]
    /\ results' = <<>>
    /\ consumed' = 0
    /\ pc' = "exact_wait"
    /\ UNCHANGED <<session, use_api_key, arg, ret,
                   srcStore, dstStore, calls, outcome, src_items, dst_items, src_map,
                   dst_map, src_unmatched, dst_unmatched, matched_pairs,
                   fuzzy_updates, fuzzy_creates, to_create, to_update, to_delete>>

\* ExactTaskDone with _normalize_item working on the records themselves, not
\* on deep copies of them
ExactTaskDoneInPlace(i) ==
    /\ pc \in {"exact_wait", "exact_unwind"}
    /\ futures[i] = "pending"
    /\ futures' = [futures EXCEPT ![i] = "done"]
    /\ results' = Append(results, compare_pair(src_items, dst_items, matched_pairs[i]))
    /\ src_items' = [src_items EXCEPT ![matched_pairs[i][1]] =
                        IF normalize_item_raises(@) THEN @ ELSE normalize_item(@)]
    /\ dst_items' = [dst_items EXCEPT ![matched_pairs[i][2]] =
                        IF normalize_item_raises(@) THEN @ ELSE normalize_item(@)]
    /\ UNCHANGED <<session, use_api_key, arg, ret,
                   srcStore, dstStore, calls, pc, outcome, src_map,
                   dst_map, src_unmatched, dst_unmatched, matched_pairs, consumed,
                   fuzzy_updates, fuzzy_creates, to_create, to_update, to_delete>>

\* a worker runs compare_pair to its end; the pool also finishes the tasks left
\* when an exception is on its way out of the with block
ExactTaskDone(i) ==
    /\ pc \in {"exact_wait", "exact_unwind"}
    /\ futures[i] = "pending"
    /\ futures' = [futures EXCEPT ![i] = "done"]
    /\ results' = Append(results, compare_pair(src_items, dst_items, matched_pairs[i]))
    /\ UNCHANGED <<session, use_api_key, arg, ret,
                   srcStore, dstStore, calls, pc, outcome, src_items, dst_items, src_map,
                   dst_map, src_unmatched, dst_unmatched, matched_pairs, consumed,
                   fuzzy_updates, fuzzy_creates, to_create, to_update, to_delete>>

\* ConsumeResult without the "if diff" test
ConsumeResultNoFilter(update, r) ==
    IF r.raised THEN [raised |-> TRUE, to_update |-> update]
    ELSE [raised |-> FALSE, to_update |-> Append(update, r.pair)]

\* ConsumeResult with the exception of a task caught and dropped
ConsumeResultSwallow(update, r) ==
    [raised |-> FALSE,
     to_update |-> IF ~r.raised /\ r.diff THEN Append(update, r.pair) ELSE update]

\* ConsumeResult that assigns the list where it should append to it
ConsumeResultKeepLast(update, r) ==
    IF r.raised THEN [raised |-> TRUE, to_update |-> update]
    ELSE [raised |-> FALSE, to_update |-> IF r.diff THEN <<r.pair>> ELSE update]

\* what the body of the as_completed loop does with one result
ConsumeResult(update, r) ==
    IF r.raised THEN [raised |-> TRUE, to_update |-> update]
    ELSE [raised |-> FALSE,
          to_update |-> IF r.diff THEN Append(update, r.pair) ELSE update]

\* for f in as_completed(futures): src_item, dst_item, diff = f.result() ...
ExactConsume ==
    /\ pc = "exact_wait"
    /\ consumed < Len(results)
    /\ LET c == ConsumeResult(to_update, results[consumed + 1])
       IN  /\ to_update' = c.to_update
           /\ pc' = IF c.raised THEN "exact_unwind" ELSE pc
    /\ consumed' = consumed + 1
    /\ UNCHANGED <<session, use_api_key, arg, ret,
                   srcStore, dstStore, calls, outcome, src_items, dst_items, src_map,
                   dst_map, src_unmatched, dst_unmatched, matched_pairs, futures,
                   results, fuzzy_updates, fuzzy_creates, to_create, to_delete>>

AllDone == \A i \in 1..Len(futures) : futures[i] = "done"

\* the with block ends: every result was taken
ExactJoin ==
    /\ pc = "exact_wait"
    /\ AllDone
    /\ consumed = Len(futures)
    /\ pc' = "deletions"
    /\ UNCHANGED <<session, use_api_key, arg, ret,
                   srcStore, dstStore, calls, outcome, src_items, dst_items, src_map,
                   dst_map, src_unmatched, dst_unmatched, matched_pairs, futures,
                   results, consumed, fuzzy_updates, fuzzy_creates, to_create,
                   to_update, to_delete>>

\* ExactRaise on a pool shut down without waiting for the tasks left
ExactRaiseNoWait ==
    /\ pc = "exact_unwind"
    /\ pc' = "raised"
    /\ outcome' = "TypeError"
    /\ UNCHANGED <<session, use_api_key, arg, ret,
                   srcStore, dstStore, calls, src_items, dst_items, src_map,
                   dst_map, src_unmatched, dst_unmatched, matched_pairs, futures,
                   results, consumed, fuzzy_updates, fuzzy_creates, to_create,
                   to_update, to_delete>>

\* f.result() raised: the pool is shut down (it waits for its tasks) and the
\* exception leaves plan()
ExactRaise ==
    /\ pc = "exact_unwind"
    /\ AllDone
    /\ pc' = "raised"
    /\ outcome' = "TypeError"
    /\ UNCHANGED <<session, use_api_key, arg, ret,
                   srcStore, dstStore, calls, src_items, dst_items, src_map,
                   dst_map, src_unmatched, dst_unmatched, matched_pairs, futures,
                   results, consumed, fuzzy_updates, fuzzy_creates, to_create,
                   to_update, to_delete>>

\* 2. Identify deletions: the loop over dst_map.items()
RECURSIVE DeleteLoop(_, _, _)
DeleteLoop(dmap, smap, acc) ==
    IF dmap = <<>> THEN acc
    ELSE DeleteLoop(Tail(dmap), smap,
            IF ~DictHas(smap, Head(dmap).key) THEN Append(acc, Head(dmap).ref) ELSE acc)

Deletions ==
    /\ pc = "deletions"
    /\ to_delete' = DeleteLoop(dst_map, src_map, to_delete)
    /\ pc' = "fuzzy"
    /\ UNCHANGED <<session, use_api_key, arg, ret,
                   srcStore, dstStore, calls, outcome, src_items, dst_items, src_map,
                   dst_map, src_unmatched, dst_unmatched, matched_pairs, futures,
                   results, consumed, fuzzy_updates, fuzzy_creates, to_create, to_update>>

\* 3. fuzzy_updates, fuzzy_creates = self._match_unmatched(src_unmatched, dst_unmatched)
FuzzyMatch ==
    /\ pc = "fuzzy"
    /\ \E order \in Orders(Len(src_unmatched)) :
        LET r == match_unmatched(src_items, dst_items, src_unmatched, dst_unmatched, order)
        IN  /\ fuzzy_updates' = r.update_pairs
            /\ fuzzy_creates' = r.create_list
            /\ dst_unmatched' = r.dst_unmatched
    /\ pc' = "fuzzy_compare"
    /\ UNCHANGED <<session, use_api_key, arg, ret,
                   srcStore, dstStore, calls, outcome, src_items, dst_items, src_map,
                   dst_map, src_unmatched, matched_pairs, futures, results, consumed,
                   to_create, to_update, to_delete>>

\* the as_completed loop over a list of results
RECURSIVE ConsumeAll(_, _)
ConsumeAll(res, acc) ==
    IF res = <<>> \/ acc.raised THEN acc
    ELSE ConsumeAll(Tail(res), ConsumeResult(acc.to_update, Head(res)))

\* Filter fuzzy updates by diff: the second pool, its tasks completing in any order
FuzzyCompare ==
    /\ pc = "fuzzy_compare"
    /\ \E order \in Orders(Len(fuzzy_updates)) :
        LET res == [i \in 1..Len(fuzzy_updates) |->
                        compare_pair(src_items, dst_items, fuzzy_updates[order[i]])]
            c   == ConsumeAll(res, [raised |-> FALSE, to_update |-> to_update])
        IN  /\ to_update' = c.to_update
            /\ pc' = IF c.raised THEN "raised" ELSE "finish"
            /\ outcome' = IF c.raised THEN "TypeError" ELSE outcome
    /\ UNCHANGED <<session, use_api_key, arg, ret,
                   srcStore, dstStore, calls, src_items, dst_items, src_map,
                   dst_map, src_unmatched, dst_unmatched, matched_pairs, futures,
                   results, consumed, fuzzy_updates, fuzzy_creates, to_create, to_delete>>

\* to_delete.extend(dst_unmatched); to_create.extend(fuzzy_creates); return
Finish ==
    /\ pc = "finish"
    /\ to_delete' = to_delete \o dst_unmatched
    /\ to_create' = to_create \o fuzzy_creates
    /\ pc' = "done"
    /\ outcome' = "returned"
    /\ UNCHANGED <<session, use_api_key, arg, ret,
                   srcStore, dstStore, calls, src_items, dst_items, src_map,
                   dst_map, src_unmatched, dst_unmatched, matched_pairs, futures,
                   results, consumed, fuzzy_updates, fuzzy_creates, to_update>>

Next ==
    \/ FetchSrc
    \/ FetchSrcFail
    \/ FetchDst
    \/ FetchDstFail
    \/ AssignSource
    \/ AssignDest
    \/ MatchBySyncId
    \/ SubmitExact
    \/ \E i \in 1..Len(futures) : ExactTaskDone(i)
    \/ ExactConsume
    \/ ExactJoin
    \/ ExactRaise
    \/ Deletions
    \/ FuzzyMatch
    \/ FuzzyCompare
    \/ Finish

Spec == Init /\ [][Next]_vars

SpecBlank == InitBlank /\ [][Next]_vars

(***************************************************************************)
(* _match_unmatched called on its own, on any two lists of records         *)
(***************************************************************************)
InitMatch ==
    /\ srcStore \in StoreLists("src", MaxSrc)
    /\ dstStore \in StoreLists("dst", MaxDst)
    /\ src_items = srcStore
    /\ dst_items = dstStore
    /\ src_unmatched = [i \in 1..Len(srcStore) |-> i]
    /\ dst_unmatched = [i \in 1..Len(dstStore) |-> i]
    /\ calls = <<>>
    /\ pc = "mu_submit"
    /\ outcome = "running"
    /\ src_map = <<>>
    /\ dst_map = <<>>
    /\ matched_pairs = <<>>
    /\ futures = <<>>
    /\ results = <<>>
    /\ consumed = 0
    /\ fuzzy_updates = <<>>
    /\ fuzzy_creates = <<>>
    /\ to_create = <<>>
    /\ to_update = <<>>
    /\ to_delete = <<>>
    /\ arg = NoneDict
    /\ ret = [op |-> "none"]
    /\ session = None
    /\ use_api_key = TRUE

\* futures = [executor.submit(match_one, s) for s in src_unmatched]
MatchSubmit ==
    /\ pc = "mu_submit"
    /\ futures' = [i \in 1..Len(src_unmatched) |-> "pending"]
    /\ pc' = "mu_wait"
    /\ UNCHANGED <<session, use_api_key, arg, ret,
                   srcStore, dstStore, calls, outcome, src_items, dst_items, src_map,
                   dst_map, src_unmatched, dst_unmatched, matched_pairs, results,
                   consumed, fuzzy_updates, fuzzy_creates, to_create, to_update, to_delete>>

\* task i completes and as_completed hands its result to results.append
MatchOneDone(i) ==
    /\ pc = "mu_wait"
    /\ futures[i] = "pending"
    /\ futures' = [futures EXCEPT ![i] = "done"]
    /\ results' = Append(results, match_one(src_items, dst_items, dst_unmatched, src_unmatched[i]))
    /\ consumed' = consumed + 1
    /\ UNCHANGED <<session, use_api_key, arg, ret,
                   srcStore, dstStore, calls, pc, outcome, src_items, dst_items, src_map,
                   dst_map, src_unmatched, dst_unmatched, matched_pairs, fuzzy_updates,
                   fuzzy_creates, to_create, to_update, to_delete>>

\* the pool is joined; the loop over results; return update_pairs, create_list
MatchCollect ==
    /\ pc = "mu_wait"
    /\ AllDone
    /\ LET r == CollectResults(results, [update_pairs |-> <<>>, create_list |-> <<>>,
                                         dst_unmatched |-> dst_unmatched])
       IN  /\ fuzzy_updates' = r.update_pairs
           /\ fuzzy_creates' = r.create_list
           /\ dst_unmatched' = r.dst_unmatched
    /\ pc' = "mu_done"
    /\ outcome' = "returned"
    /\ UNCHANGED <<session, use_api_key, arg, ret,
                   srcStore, dstStore, calls, src_items, dst_items, src_map,
                   dst_map, src_unmatched, matched_pairs, futures, results, consumed,
                   to_create, to_update, to_delete>>

NextMatch ==
    \/ MatchSubmit
    \/ \E i \in 1..Len(futures) : MatchOneDone(i)
    \/ MatchCollect

SpecMatch == InitMatch /\ [][NextMatch]_vars

(***************************************************************************)
(* The functions of the planner called on their own, on any record         *)
(***************************************************************************)
\* the longest login.uris and fields lists of the records
MaxEntries == 2

UriEntries ==
    {BankUri,
     [uri |-> " https://bank.com", match |-> None, port |-> "443"],
     [uri |-> "https://bank.com", match |-> "0"],
     [uri |-> "https://shop.org", match |-> "1", port |-> None],
     [uri |-> None]}

FieldEntries ==
    {[name |-> "env", value |-> "prod", type |-> "0"],
     [name |-> "env", value |-> "staging", type |-> "0"],
     [name |-> "region", value |-> None, type |-> "0"],
     [name |-> "region", type |-> "0"],
     [name |-> SYNC_FIELD, value |-> "sid-1", type |-> "0"]}

ListsOf(S, max) == UNION {[1..n -> S] : n \in 0..max}

\* a login with and without username, with uris null, missing or a list
Logins ==
    {[username |-> u, uris |-> l] :
        u \in {None, "Alice"}, l \in ListsOf(UriEntries, MaxEntries) \cup {NoneList}}
    \cup {[password |-> "p1", totp |-> None]}

WithLogin(login) ==
    [name |-> "Bank", notes |-> None, login |-> login,
     fields |-> <<[name |-> "region", value |-> None, type |-> "0"]>>]

WithFields(fields) ==
    [id |-> "src-1", revisionDate |-> "2024-01-01", name |-> "bank ",
     login |-> [username |-> "alice", totp |-> "t", uris |-> <<BankUri>>],
     fields |-> fields]

\* records that lack whole parts
SparseRecords ==
    {[id |-> "src-1"],
     [name |-> None, notes |-> "n"],
     [name |-> "Bank", login |-> NoneDict, fields |-> NoneList]}

Records ==
    {WithLogin(l) : l \in Logins}
    \cup {WithFields(f) : f \in ListsOf(FieldEntries, MaxEntries) \cup {NoneList}}
    \cup SparseRecords
    \cup Items

\* the values a caller passes as sync_id
Fingerprints == {"sid-1", "sid-2"}

\* the orders a store can return the entries of a list in
Perms(q) == {[i \in 1..Len(q) |-> q[p[i]]] : p \in Orders(Len(q))}

\* the records that differ from r only in the order of login.uris and of fields
Reordered(r) ==
    LET r1s == IF IsDictAt(r, "login") /\ IsListAt(r.login, "uris")
               THEN {Put(r, "login", Put(r.login, "uris", u)) : u \in Perms(r.login.uris)}
               ELSE {r}
    IN  UNION {IF IsListAt(r1, "fields")
               THEN {Put(r1, "fields", f) : f \in Perms(r1.fields)}
               ELSE {r1} : r1 \in r1s}

\* the locals of plan(), not used here
planLocals == <<srcStore, dstStore, calls, src_items, dst_items, src_map, dst_map,
                src_unmatched, dst_unmatched, matched_pairs, futures, results,
                consumed, fuzzy_updates, fuzzy_creates, to_create, to_update, to_delete>>

InitPure ==
    /\ arg \in Records
    /\ ret = [op |-> "none"]
    /\ session = None
    /\ use_api_key = TRUE
    /\ pc = "call"
    /\ outcome = "running"
    /\ srcStore = <<>>
    /\ dstStore = <<>>
    /\ calls = <<>>
    /\ src_items = <<>>
    /\ dst_items = <<>>
    /\ src_map = <<>>
    /\ dst_map = <<>>
    /\ src_unmatched = <<>>
    /\ dst_unmatched = <<>>
    /\ matched_pairs = <<>>
    /\ futures = <<>>
    /\ results = <<>>
    /\ consumed = 0
    /\ fuzzy_updates = <<>>
    /\ fuzzy_creates = <<>>
    /\ to_create = <<>>
    /\ to_update = <<>>
    /\ to_delete = <<>>

\* self._normalize_item(arg)
Normalize ==
    /\ pc = "call"
    /\ IF normalize_item_raises(arg)
       THEN /\ ret' = [op |-> "normalize_item"]
            /\ pc' = "raised"
            /\ outcome' = "TypeError"
       ELSE /\ ret' = [op |-> "normalize_item", first |-> normalize_item(arg)]
            /\ pc' = "normalized"
            /\ outcome' = "returned"
    /\ UNCHANGED <<arg, session, use_api_key, planLocals>>

\* self._normalize_item(...) of what the first call returned
NormalizeAgain ==
    /\ pc = "normalized"
    /\ IF normalize_item_raises(ret.first)
       THEN /\ ret' = [op |-> "normalize_item", first |-> ret.first]
            /\ pc' = "raised"
            /\ outcome' = "TypeError"
       ELSE /\ ret' = [op |-> "normalize_item", first |-> ret.first,
                       second |-> normalize_item(ret.first)]
            /\ pc' = "renormalized"
            /\ outcome' = "returned"
    /\ UNCHANGED <<arg, session, use_api_key, planLocals>>

\* self._items_differ(arg, other), other being arg as a store may reorder it
ItemsDifferReordered ==
    /\ pc = "call"
    /\ \E other \in Reordered(arg) :
        IF normalize_item_raises(arg) \/ normalize_item_raises(other)
        THEN /\ ret' = [op |-> "items_differ", other |-> other]
             /\ pc' = "raised"
             /\ outcome' = "TypeError"
        ELSE /\ ret' = [op |-> "items_differ", other |-> other,
                        value |-> items_differ(arg, other)]
             /\ pc' = "compared"
             /\ outcome' = "returned"
    /\ UNCHANGED <<arg, session, use_api_key, planLocals>>

\* self.compute_sync_id(arg)
ComputeSyncId ==
    /\ pc = "call"
    /\ IF compute_sync_id_raises(arg)
       THEN /\ ret' = [op |-> "compute_sync_id"]
            /\ pc' = "raised"
            /\ outcome' = "AttributeError"
       ELSE /\ ret' = [op |-> "compute_sync_id", value |-> compute_sync_id(arg)]
            /\ pc' = "computed"
            /\ outcome' = "returned"
    /\ UNCHANGED <<arg, session, use_api_key, planLocals>>

\* self.set_sync_id(arg, fp): the record is changed in place
SetSyncId ==
    /\ pc = "call"
    /\ \E fp \in Fingerprints :
        /\ arg' = set_sync_id(arg, fp)
        /\ ret' = [op |-> "set_sync_id", fp |-> fp, before |-> arg]
    /\ pc' = "set"
    /\ outcome' = "returned"
    /\ UNCHANGED <<session, use_api_key, planLocals>>

\* self.set_sync_id(arg, fp) once more with the same fp
SetSyncIdAgain ==
    /\ pc = "set"
    /\ arg' = set_sync_id(arg, ret.fp)
    /\ ret' = [op |-> "set_sync_id", fp |-> ret.fp, before |-> ret.before, after_first |-> arg]
    /\ pc' = "set_again"
    /\ UNCHANGED <<outcome, session, use_api_key, planLocals>>

NextPure ==
    \/ Normalize
    \/ NormalizeAgain
    \/ ItemsDifferReordered
    \/ ComputeSyncId
    \/ SetSyncId
    \/ SetSyncIdAgain

SpecPure == InitPure /\ [][NextPure]_vars

(***************************************************************************)
(* The session methods of one BitwardenClient: login, unlock, logout       *)
(***************************************************************************)
\* how many bw commands the client issues at most
MaxCommands == 4

\* the exit statuses of a bw process
ExitStatuses == {0, 1}

\* subprocess.run(cmd, ..., check=True): "ok" or the exception it raises
check_run(returncode) == IF returncode # 0 THEN "CalledProcessError" ELSE "ok"

\* self._run(["logout"], capture_json=False) inside logout(): the entry of the
\* command in calls
LogoutCommand(returncode) ==
    <<"client", "logout", run_result([returncode |-> returncode, stdout |-> ""], FALSE),
      returncode>>

InitSession ==
    /\ session \in {None, "tok-0"}
    /\ use_api_key \in BOOLEAN
    /\ pc = "idle"
    /\ outcome = "running"
    /\ calls = <<>>
    /\ arg = NoneDict
    /\ ret = [op |-> "none"]
    /\ srcStore = <<>>
    /\ dstStore = <<>>
    /\ src_items = <<>>
    /\ dst_items = <<>>
    /\ src_map = <<>>
    /\ dst_map = <<>>
    /\ src_unmatched = <<>>
    /\ dst_unmatched = <<>>
    /\ matched_pairs = <<>>
    /\ futures = <<>>
    /\ results = <<>>
    /\ consumed = 0
    /\ fuzzy_updates = <<>>
    /\ fuzzy_creates = <<>>
    /\ to_create = <<>>
    /\ to_update = <<>>
    /\ to_delete = <<>>

\* what no session method touches
sessionFrame == <<arg, ret, use_api_key, srcStore, dstStore, src_items, dst_items,
                  src_map, dst_map, src_unmatched, dst_unmatched, matched_pairs,
                  futures, results, consumed, fuzzy_updates, fuzzy_creates,
                  to_create, to_update, to_delete>>

\* login() with use_api_key: bw login --apikey
LoginApiKey ==
    /\ pc = "idle"
    /\ use_api_key
    /\ Len(calls) < MaxCommands
    /\ \E rc \in ExitStatuses :
        /\ calls' = Append(calls, <<"client", "login --apikey", check_run(rc), rc>>)
        /\ IF check_run(rc) = "ok"
           THEN /\ session' = "tok-login"
                /\ pc' = "idle"
                /\ outcome' = "returned"
           ELSE /\ pc' = "login_except"
                /\ outcome' = "running"
                /\ UNCHANGED session
    /\ UNCHANGED sessionFrame

\* except CalledProcessError in login(): logout() inside try/except: pass, then
\* raise BitwardenError
LoginExceptLogout ==
    /\ pc = "login_except"
    /\ \E rc \in ExitStatuses :
        /\ calls' = Append(calls, LogoutCommand(rc))
        /\ session' = IF LogoutCommand(rc)[3] = "ok" THEN None ELSE session
    /\ pc' = "raised"
    /\ outcome' = "BitwardenError"
    /\ UNCHANGED sessionFrame

\* login() without use_api_key: self.session = self._run(["login", email, ...],
\* capture_json=False)
LoginPassword ==
    /\ pc = "idle"
    /\ ~use_api_key
    /\ Len(calls) < MaxCommands
    /\ \E rc \in ExitStatuses :
        LET res == run_result([returncode |-> rc, stdout |-> ""], FALSE)
        IN  /\ calls' = Append(calls, <<"client", "login", res, rc>>)
            /\ IF res = "ok"
               THEN /\ session' = "tok-login"
                    /\ pc' = "idle"
                    /\ outcome' = "returned"
               ELSE /\ pc' = "raised"
                    /\ outcome' = res
                    /\ UNCHANGED session
    /\ UNCHANGED sessionFrame

\* unlock(password): env["BW_SESSION"] = self.session, then bw unlock. With
\* session None subprocess.run rejects the environment before any process runs.
Unlock ==
    /\ pc = "idle"
    /\ Len(calls) < MaxCommands
    /\ IF session = None
       THEN /\ pc' = "raised"
            /\ outcome' = "TypeError"
            /\ UNCHANGED <<calls, session>>
       ELSE \E rc \in ExitStatuses :
            /\ calls' = Append(calls, <<"client", "unlock", check_run(rc), rc>>)
            /\ IF check_run(rc) = "ok"
               THEN /\ session' = "tok-unlock"
                    /\ pc' = "idle"
                    /\ outcome' = "returned"
               ELSE /\ pc' = "unlock_except"
                    /\ outcome' = "running"
                    /\ UNCHANGED session
    /\ UNCHANGED sessionFrame

\* except CalledProcessError in unlock(): self.logout(), then raise
\* BitwardenError; an exception of logout() leaves the handler
UnlockExceptLogout ==
    /\ pc = "unlock_except"
    /\ \E rc \in ExitStatuses :
        /\ calls' = Append(calls, LogoutCommand(rc))
        /\ IF LogoutCommand(rc)[3] = "ok"
           THEN /\ session' = None
                /\ outcome' = "BitwardenError"
           ELSE /\ outcome' = LogoutCommand(rc)[3]
                /\ UNCHANGED session
    /\ pc' = "raised"
    /\ UNCHANGED sessionFrame

\* logout(): self._run(["logout"], capture_json=False); self.session = None
Logout ==
    /\ pc = "idle"
    /\ Len(calls) < MaxCommands
    /\ \E rc \in ExitStatuses :
        /\ calls' = Append(calls, LogoutCommand(rc))
        /\ IF LogoutCommand(rc)[3] = "ok"
           THEN /\ session' = None
                /\ pc' = "idle"
                /\ outcome' = "returned"
           ELSE /\ pc' = "raised"
                /\ outcome' = LogoutCommand(rc)[3]
                /\ UNCHANGED session
    /\ UNCHANGED sessionFrame

NextSession ==
    \/ LoginApiKey
    \/ LoginExceptLogout
    \/ LoginPassword
    \/ Unlock
    \/ UnlockExceptLogout
    \/ Logout

SpecSession == InitSession /\ [][NextSession]_vars

(***************************************************************************)
(* Properties                                                              *)
(***************************************************************************)
Count(q, x) == Cardinality({i \in 1..Len(q) : q[i] = x})
AllPairs == SeqToSet(matched_pairs) \cup SeqToSet(fuzzy_updates)
UpdateSet == SeqToSet(to_update)
SrcRefs == 1..Len(src_items)
DstRefs == 1..Len(dst_items)

\* matched and left out of to_update
SrcUnchanged(s) == \E p \in AllPairs : p[1] = s /\ p \notin UpdateSet
DstUnchanged(d) == \E p \in AllPairs : p[2] = d /\ p \notin UpdateSet

SrcBuckets(s) ==
    (IF SrcUnchanged(s) THEN 1 ELSE 0)
    + Cardinality({i \in 1..Len(to_update) : to_update[i][1] = s})
    + Count(to_create, s)
DstBuckets(d) ==
    (IF DstUnchanged(d) THEN 1 ELSE 0)
    + Cardinality({i \in 1..Len(to_update) : to_update[i][2] = d})
    + Count(to_delete, d)

\* C1: after plan() every fetched destination record is in exactly one of
\* matched-and-unchanged, one toUpdate pair, toDelete, and every fetched source
\* record is in exactly one of matched-and-unchanged, one toUpdate pair, toCreate.
C1_PartitionComplete ==
    pc = "done" =>
        /\ \A s \in SrcRefs : SrcBuckets(s) = 1
        /\ \A d \in DstRefs : DstBuckets(d) = 1

\* C2: every pair of toUpdate has normalized projections that differ; a matched
\* pair whose projections are equal is never in toUpdate.
C2_UpdatePairsDiffer ==
    \A p \in UpdateSet :
        /\ p \in AllPairs
        /\ ~normalize_item_raises(src_items[p[1]])
        /\ ~normalize_item_raises(dst_items[p[2]])
        /\ dumps(normalize_item(src_items[p[1]]), "dict")
             # dumps(normalize_item(dst_items[p[2]]), "dict")

\* plan() returned with one matched pair left unchanged and another in toUpdate
C2_Witness ==
    /\ pc = "done"
    /\ UpdateSet # {}
    /\ \E p \in AllPairs :
        /\ p \notin UpdateSet
        /\ ~items_differ(src_items[p[1]], dst_items[p[2]])

STORE_METADATA == {"id", "revisionDate", "creationDate", "deletedDate", "organizationId"}

\* the same stored sync_id and the same content apart from store-managed metadata
SameRecord(s, d) ==
    /\ get_sync_id(s) # ""
    /\ get_sync_id(s) = get_sync_id(d)
    /\ DropKeys(s, STORE_METADATA) = DropKeys(d, STORE_METADATA)

NoOpInput ==
    /\ \A i \in 1..Len(srcStore) : \E j \in 1..Len(dstStore) : SameRecord(srcStore[i], dstStore[j])
    /\ \A j \in 1..Len(dstStore) : \E i \in 1..Len(srcStore) : SameRecord(srcStore[i], dstStore[j])

\* C3: no-op stability: when the destination holds, for each source record, a
\* record with the same sync_id and the same content apart from store-managed
\* metadata, and nothing else, plan() returns three empty lists.
C3_NoOpStability ==
    (pc = "done" /\ NoOpInput) =>
        /\ to_create = <<>>
        /\ to_update = <<>>
        /\ to_delete = <<>>

\* C4: during plan(), whether it returns or raises, the only client operation
\* invoked is list_items, once per store at most, and neither store changes.
C4_ReadOnly ==
    /\ [](/\ \A i \in 1..Len(calls) : calls[i][2] = "list_items"
          /\ \A i, j \in 1..Len(calls) : calls[i][1] = calls[j][1] => i = j)
    /\ [][srcStore' = srcStore /\ dstStore' = dstStore]_vars

\* plan() returned after two fetches, having tagged a record in memory only
C4_Witness ==
    /\ pc = "done"
    /\ Len(calls) = 2
    /\ src_items # srcStore

\* nothing after the fetches has run
NothingRan ==
    /\ src_map = <<>> /\ dst_map = <<>>
    /\ src_unmatched = <<>> /\ dst_unmatched = <<>>
    /\ matched_pairs = <<>> /\ futures = <<>> /\ results = <<>>
    /\ fuzzy_updates = <<>> /\ fuzzy_creates = <<>>
    /\ to_create = <<>> /\ to_update = <<>> /\ to_delete = <<>>
    /\ src_items \in {<<>>, srcStore}
    /\ dst_items = <<>>

\* C5: if list_items of either store fails, plan() fails with that error, returns
\* no plan, and no identity assignment, matching or comparison has run.
C5_FetchFailureAborts ==
    \A i \in 1..Len(calls) :
        calls[i][3] # "ok" =>
            /\ i = Len(calls)
            /\ pc = "raised"
            /\ outcome = calls[i][3]
            /\ NothingRan

\* the destination fetch failed after the source fetch returned records
C5_Witness ==
    /\ pc = "raised"
    /\ Len(calls) = 2
    /\ calls[2] = <<"destination", "list_items", "BitwardenError", 0>>
    /\ src_items # <<>>

\* C6: if a comparison task raises, plan() raises and returns no plan; it never
\* returns a plan that leaves the failing pair out.
C6_CompareFailurePropagates ==
    (\E i \in 1..Len(results) : results[i].raised) =>
        /\ pc \in {"exact_wait", "exact_unwind", "raised"}
        /\ outcome \in {"running", "TypeError"}
        /\ (pc = "raised" => outcome = "TypeError")

\* a comparison raised and the TypeError left plan()
C6_Witness ==
    /\ pc = "raised"
    /\ outcome = "TypeError"
    /\ \E i \in 1..Len(results) : results[i].raised

\* matching has begun: both identity loops are over
MatchingBegun ==
    \/ pc \in {"match", "exact_submit", "exact_wait", "exact_unwind", "deletions",
               "fuzzy", "fuzzy_compare", "finish", "done"}
    \/ pc = "raised" /\ outcome = "TypeError"

\* C7 as stated: a stored sync_id is never changed, and when matching begins no
\* source or destination record lacks a sync_id field.
C7_AllRecordsTagged ==
    MatchingBegun =>
        /\ \A s \in SrcRefs :
            /\ get_sync_id(srcStore[s]) # "" => get_sync_id(src_items[s]) = get_sync_id(srcStore[s])
            /\ get_sync_id(src_items[s]) # ""
        /\ \A d \in DstRefs :
            /\ get_sync_id(dstStore[d]) # "" => get_sync_id(dst_items[d]) = get_sync_id(dstStore[d])
            /\ get_sync_id(dst_items[d]) # ""

\* C7 amended: a stored non-empty sync_id is never changed on either side; a
\* source record without one carries its computed fingerprint as sync_id when
\* matching begins and is otherwise as fetched; a destination record is never
\* modified, so one fetched without a sync_id still has none.
C7_SourceRecordsTagged ==
    /\ \A s \in SrcRefs :
        get_sync_id(srcStore[s]) # "" => get_sync_id(src_items[s]) = get_sync_id(srcStore[s])
    /\ \A d \in DstRefs : dst_items[d] = dstStore[d]
    /\ MatchingBegun =>
        \A s \in SrcRefs :
            /\ get_sync_id(srcStore[s]) = "" =>
                    get_sync_id(src_items[s]) = compute_sync_id(srcStore[s])
            /\ get_sync_id(src_items[s]) # ""
            /\ src_items[s] = set_custom_field(srcStore[s], SYNC_FIELD, get_sync_id(src_items[s]))

\* matching has begun over a source record that had a sync_id, one that got its
\* fingerprint attached, and a destination record that has none
C7_Witness ==
    /\ pc = "match"
    /\ \E s \in SrcRefs : get_sync_id(srcStore[s]) # ""
    /\ \E s \in SrcRefs : get_sync_id(srcStore[s]) = "" /\ get_sync_id(src_items[s]) # ""
    /\ \E d \in DstRefs : get_sync_id(dst_items[d]) = ""

\* C8: _match_unmatched pairs each destination record at most once; of two source
\* records with the fuzzy key of one destination record, exactly one is paired
\* with it and the other is in the create list.
C8_DestinationClaimedOnce ==
    pc = "mu_done" =>
        /\ \A d \in DstRefs :
            Cardinality({i \in 1..Len(fuzzy_updates) : fuzzy_updates[i][2] = d}) <= 1
        /\ \A s1, s2 \in SrcRefs :
            (/\ s1 # s2
             /\ build_key(src_items[s1]) = build_key(src_items[s2])
             /\ Cardinality({d \in DstRefs : build_key(dst_items[d]) = build_key(src_items[s1])}) = 1)
            => \E d \in DstRefs :
                 \/ <<s1, d>> \in SeqToSet(fuzzy_updates) /\ Count(fuzzy_creates, s2) = 1
                 \/ <<s2, d>> \in SeqToSet(fuzzy_updates) /\ Count(fuzzy_creates, s1) = 1

\* neither record shares a fingerprint or a fuzzy key with a third record
MatchNoOther(s, d) ==
    /\ \A s2 \in SrcRefs \ {s} :
        /\ EffectiveSyncId(srcStore[s2]) \notin {EffectiveSyncId(srcStore[s]), EffectiveSyncId(dstStore[d])}
        /\ build_key(srcStore[s2]) # build_key(srcStore[s])
    /\ \A d2 \in DstRefs \ {d} :
        /\ EffectiveSyncId(dstStore[d2]) \notin {EffectiveSyncId(srcStore[s]), EffectiveSyncId(dstStore[d])}
        /\ build_key(dstStore[d2]) # build_key(srcStore[s])

\* C9: a source and a destination record without stored sync_id that match no
\* other record and have the same fuzzy key are paired: the source record is not
\* in toCreate, the destination record is not in toDelete, and the pair is in
\* toUpdate exactly when their normalized contents differ.
C9_FuzzyPairing ==
    pc = "done" =>
        \A s \in SrcRefs, d \in DstRefs :
            (/\ get_sync_id(srcStore[s]) = ""
             /\ get_sync_id(dstStore[d]) = ""
             /\ build_key(srcStore[s]) = build_key(dstStore[d])
             /\ MatchNoOther(s, d))
            => /\ Count(to_create, s) = 0
               /\ Count(to_delete, d) = 0
               /\ (<<s, d>> \in UpdateSet <=> items_differ(srcStore[s], dstStore[d]))

\* plan() computed with every pool completing its tasks in submission order
InOrder(n) == [i \in 1..n |-> i]
PlanInOrder ==
    LET s   == SrcIdentityLoop([items |-> srcStore, map |-> <<>>, unmatched |-> <<>>], 1)
        d   == DstIdentityLoop([items |-> dstStore, map |-> <<>>, unmatched |-> <<>>], 1)
        m   == MatchLoop(s.map, d.map, [matched_pairs |-> <<>>, to_create |-> <<>>])
        ex  == ConsumeAll([i \in 1..Len(m.matched_pairs) |->
                              compare_pair(s.items, d.items, m.matched_pairs[i])],
                          [raised |-> FALSE, to_update |-> <<>>])
        del == DeleteLoop(d.map, s.map, <<>>)
        fz  == match_unmatched(s.items, d.items, s.unmatched, d.unmatched,
                               InOrder(Len(s.unmatched)))
        fc  == ConsumeAll([i \in 1..Len(fz.update_pairs) |->
                              compare_pair(s.items, d.items, fz.update_pairs[i])],
                          ex)
    IN  [raised    |-> fc.raised,
         to_create |-> SeqToSet(m.to_create \o fz.create_list),
         to_update |-> SeqToSet(fc.to_update),
         to_delete |-> SeqToSet(del \o fz.dst_unmatched)]

\* C10: for fixed store contents the membership of toCreate, toUpdate and
\* toDelete is the same under every completion order of the worker tasks: it is
\* the membership of the run whose tasks complete in submission order.
C10_MembershipOrderFree ==
    pc = "done" =>
        LET ref == PlanInOrder
        IN  /\ ~ref.raised
            /\ SeqToSet(to_create) = ref.to_create
            /\ UpdateSet = ref.to_update
            /\ SeqToSet(to_delete) = ref.to_delete

\* plan() returned two updates whose comparisons completed in reverse order
C10_Witness ==
    /\ pc = "done"
    /\ Len(matched_pairs) = 2
    /\ Len(results) = 2
    /\ results[1].pair = matched_pairs[2]
    /\ Len(to_update) = 2

\* plan() is past its exact-compare pool
PastExactPool ==
    \/ pc \in {"deletions", "fuzzy", "fuzzy_compare", "finish", "done"}
    \/ pc = "raised" /\ outcome = "TypeError"

\* C11: the phases of plan() are sequential with a join after each: no later
\* phase (deletions, fuzzy match, fuzzy compare) begins, and plan() neither
\* returns nor raises out of the pool, before every exact-compare task that was
\* submitted, one per matched pair, has completed.
C11_PhaseBarrier ==
    /\ PastExactPool =>
        /\ Len(futures) = Len(matched_pairs)
        /\ AllDone
        /\ Len(results) = Len(futures)
    /\ pc \in {"deletions", "fuzzy", "fuzzy_compare", "finish", "done"} =>
        consumed = Len(futures)
    /\ pc \notin {"fuzzy_compare", "finish", "done"} =>
        fuzzy_updates = <<>> /\ fuzzy_creates = <<>>

\* the first result taken raised; plan() raised only after the second task, which
\* the caller never took, had completed too
C11_Witness ==
    /\ pc = "raised"
    /\ outcome = "TypeError"
    /\ Len(futures) = 2
    /\ consumed = 1
    /\ AllDone

\* C12: after plan() every destination record whose fingerprint is that of no
\* source record and whose fuzzy key is that of no source record is in toDelete,
\* also when several destination records share the fingerprint; a destination
\* record whose fingerprint is that of some source record is not in toDelete.
C12_DestinationOnlyDeleted ==
    pc = "done" =>
        \A d \in DstRefs :
            /\ (\A s \in SrcRefs :
                    /\ EffectiveSyncId(srcStore[s]) # EffectiveSyncId(dstStore[d])
                    /\ build_key(srcStore[s]) # build_key(dstStore[d]))
               => Count(to_delete, d) >= 1
            /\ (\E s \in SrcRefs :
                    EffectiveSyncId(srcStore[s]) = EffectiveSyncId(dstStore[d]))
               => Count(to_delete, d) = 0

\* C13: normalization is idempotent: for every record on which _normalize_item
\* succeeds, it succeeds again on the result and returns it unchanged, tree and
\* serialization alike.
C13_NormalizeIdempotent ==
    /\ ~(pc = "raised" /\ ret.op = "normalize_item" /\ "first" \in DOMAIN ret)
    /\ pc = "renormalized" =>
        /\ ret.second = ret.first
        /\ dumps(ret.second, "dict") = dumps(ret.first, "dict")

\* normalized twice: a record with a uri of null match and no port, a field of
\* null value and null notes, and its uris out of order
C13_Witness ==
    /\ pc = "renormalized"
    /\ Get(arg, "notes", "") = None
    /\ IsDictAt(arg, "login")
    /\ IsListAt(arg.login, "uris")
    /\ \E i \in 1..Len(arg.login.uris) :
        /\ Get(arg.login.uris[i], "match", "") = None
        /\ "port" \notin DOMAIN arg.login.uris[i]
    /\ IsListAt(arg, "fields")
    /\ \E i \in 1..Len(arg.fields) : Get(arg.fields[i], "value", "") = None
    /\ Len(arg.login.uris) = 2
    /\ ret.first.login.uris[1].uri = StripLower(OrEmpty(Get(arg.login.uris[2], "uri", None)))
    /\ ret.first.login.uris[1].uri # ret.first.login.uris[2].uri

\* C14: two records that differ only in the order of the entries of login.uris
\* and of fields (entries with the same uri and match, or the same field name,
\* included) have the same normalized projection, and _items_differ of the two
\* returns false.
C14_OrderInsensitive ==
    pc = "compared" =>
        /\ ret.value = FALSE
        /\ dumps(normalize_item(arg), "dict") = dumps(normalize_item(ret.other), "dict")

\* C15: compute_sync_id never fails: on every record, also one whose name,
\* login, login.username, login.uris or first uri is missing or null, the call
\* returns a fingerprint and raises nothing.
C15_ComputeNeverFails ==
    ret.op = "compute_sync_id" =>
        /\ pc = "computed"
        /\ outcome = "returned"
        /\ "value" \in DOMAIN ret

\* C16: set_sync_id is an idempotent upsert: whether the fields list was absent,
\* null, empty or held a sync_id entry, after set_sync_id(r, fp) the record has
\* a fields list from which get_sync_id reads fp, every other field entry and
\* every other key is as before, and a second set_sync_id(r, fp) leaves the
\* record as the first call left it.
C16_SetSyncIdUpsert ==
    /\ pc \in {"set", "set_again"} =>
        LET old == FieldsOrEmpty(ret.before)
            i   == FieldIndex(old, SYNC_FIELD)
        IN  /\ IsListAt(arg, "fields")
            /\ get_sync_id(arg) = ret.fp
            /\ DropKeys(arg, {"fields"}) = DropKeys(ret.before, {"fields"})
            /\ Len(arg.fields) = IF i = 0 THEN Len(old) + 1 ELSE Len(old)
            /\ \A j \in 1..Len(old) :
                IF j = i
                THEN DropKeys(arg.fields[j], {"value"}) = DropKeys(old[j], {"value"})
                ELSE arg.fields[j] = old[j]
            /\ Cardinality({j \in 1..Len(arg.fields) : Get(arg.fields[j], "name", None) = SYNC_FIELD})
                 = IF i = 0 THEN 1
                   ELSE Cardinality({j \in 1..Len(old) : Get(old[j], "name", None) = SYNC_FIELD})
    /\ pc = "set_again" => arg = ret.after_first

\* set twice on a record that held another sync_id next to another field
C16_Witness ==
    /\ pc = "set_again"
    /\ get_sync_id(ret.before) \notin {"", ret.fp}
    /\ get_sync_id(arg) = ret.fp
    /\ Len(arg.fields) = 2

\* set twice on a record without a fields list
C16_WitnessAbsent ==
    /\ pc = "set_again"
    /\ "fields" \notin DOMAIN ret.before
    /\ Len(arg.fields) = 1

\* C17: when the CLI command of list_items exits with a non-zero status,
\* list_items fails with BitwardenError and hands no records to its caller; no
\* other exception type reaches the caller.
C17_ListItemsErrorType ==
    \A i \in 1..Len(calls) :
        (calls[i][2] = "list_items" /\ calls[i][4] # 0) =>
            /\ calls[i][3] = "BitwardenError"
            /\ outcome = "BitwardenError"
            /\ (calls[i][1] = "source" => src_items = <<>>)
            /\ (calls[i][1] = "destination" => dst_items = <<>>)

\* no stored sync_id, and name, username and uri list all empty
Blank(item) ==
    /\ get_sync_id(item) = ""
    /\ OrEmpty(Get(item, "name", None)) = ""
    /\ IsDictAt(item, "login")
    /\ OrEmpty(Get(item.login, "username", None)) = ""
    /\ Get(item.login, "uris", NoneList) \in {NoneList, <<>>}

\* C18: in plan() a record with no stored sync_id whose name, username and uri
\* list are all empty gets no fingerprint: when the identity loops are over it is
\* in the unmatched list of its side and not in the fingerprint map.
C18_BlankRecordUnmatched ==
    pc = "match" =>
        /\ \A s \in SrcRefs :
            Blank(srcStore[s]) =>
                /\ s \in SeqToSet(src_unmatched)
                /\ \A i \in 1..Len(src_map) : src_map[i].ref # s
        /\ \A d \in DstRefs :
            Blank(dstStore[d]) =>
                /\ d \in SeqToSet(dst_unmatched)
                /\ \A i \in 1..Len(dst_map) : dst_map[i].ref # d

\* C19: every pair plan() forms, and so every pair of toUpdate, shares an
\* identity: the two records have the same effective fingerprint (the stored
\* sync_id when non-empty, else the computed one), or both have none and have
\* the same fuzzy key.
C19_UpdatePairsShareIdentity ==
    \A p \in AllPairs \cup UpdateSet :
        \/ /\ EffectiveSyncId(srcStore[p[1]]) # ""
           /\ EffectiveSyncId(srcStore[p[1]]) = EffectiveSyncId(dstStore[p[2]])
        \/ /\ EffectiveSyncId(srcStore[p[1]]) = ""
           /\ EffectiveSyncId(dstStore[p[2]]) = ""
           /\ build_key(srcStore[p[1]]) = build_key(dstStore[p[2]])

\* plan() returned an update pair matched by a stored sync_id, having also
\* matched a pair by the computed fingerprint
C19_Witness ==
    /\ pc = "done"
    /\ \E p \in UpdateSet : get_sync_id(srcStore[p[1]]) # ""
    /\ \E p \in AllPairs :
        /\ get_sync_id(srcStore[p[1]]) = ""
        /\ get_sync_id(dstStore[p[2]]) = ""

\* the field entries that are not sync_id entries
OtherFields(item) ==
    SelectSeq(FieldsOrEmpty(item), LAMBDA f : Get(f, "name", None) # SYNC_FIELD)

\* C20: at every point of plan() each destination record is exactly as fetched,
\* and each source record differs from the fetched one at most in its sync_id
\* field entry, added or set; comparing two records changes neither, so the
\* records the returned lists refer to carry their original content.
C20_RecordsKeepContent ==
    /\ Len(dst_items) \in {0, Len(dstStore)}
    /\ \A d \in DstRefs : dst_items[d] = dstStore[d]
    /\ Len(src_items) \in {0, Len(srcStore)}
    /\ \A s \in SrcRefs :
        /\ DropKeys(src_items[s], {"fields"}) = DropKeys(srcStore[s], {"fields"})
        /\ OtherFields(src_items[s]) = OtherFields(srcStore[s])
        /\ Len(FieldsOrEmpty(src_items[s])) - Len(FieldsOrEmpty(srcStore[s])) \in {0, 1}
        /\ src_items[s] # srcStore[s] => get_sync_id(srcStore[s]) = ""

\* plan() returned an update after comparing pairs, one of a source record that
\* got its sync_id entry added
C20_Witness ==
    /\ pc = "done"
    /\ Len(results) = 2
    /\ to_update # <<>>
    /\ \E p \in AllPairs : src_items[p[1]] # srcStore[p[1]]
    /\ \E s \in SrcRefs : src_items[s] = srcStore[s]

\* C21: session lifecycle of a client: when the bw command of an API-key login
\* or of an unlock exits non-zero, the next command issued is a logout, it is
\* issued before the error reaches the caller, and the caller receives a
\* BitwardenError, also when that logout fails; and when a logout() has returned
\* normally the session token is None.
C21_SessionLifecycle ==
    /\ \A i \in 1..Len(calls) :
        (calls[i][2] \in {"login --apikey", "unlock"} /\ calls[i][4] # 0) =>
            /\ pc \in {"login_except", "unlock_except", "raised"}
            /\ pc = "raised" =>
                /\ i < Len(calls)
                /\ calls[i + 1][2] = "logout"
                /\ outcome = "BitwardenError"
    /\ (/\ pc = "idle"
        /\ calls # <<>>
        /\ calls[Len(calls)][2] = "logout"
        /\ calls[Len(calls)][3] = "ok") => session = None

====
